---- MODULE Spec2Model ----
(***************************************************************************)
(* Notes service (axum + sqlx/MySQL): the request handlers of              *)
(* src/src/handler.rs as a state machine over the `notes` table.           *)
(*                                                                         *)
(* Every SQL statement is one atomic step of the storage engine; a handler *)
(* that issues several statements (create: INSERT, SELECT; edit: SELECT,   *)
(* UPDATE, SELECT) is suspended at each `.await`, so statements of other   *)
(* requests may run in between.  Option<T> values are sets: {} is None and *)
(* {x} is Some(x).                                                         *)
(***************************************************************************)
EXTENDS Integers, Sequences, FiniteSets, TLC

VARIABLES
    notes,      \* the table: a function from the stored ids to their rows
    used,       \* uuids generated so far (Uuid::new_v4 never repeats one)
    pc,         \* per worker: where its request is suspended
    locals,     \* per worker: the local variables of the suspended handler
    out,        \* the response produced last (request echoed, with history)
    nreq,       \* number of requests accepted so far
    inputs,     \* history: id -> body of the Create that inserted it
    returned,   \* history: ids whose Create answered success
    touched,    \* history: ids an UPDATE or DELETE statement has hit
    deleted,    \* history: ids whose Delete answered 204
    nresp       \* history: number of responses produced so far

vars == <<notes, used, pc, locals, out, nreq, inputs, returned, touched, deleted,
          nresp>>

----------------------------------------------------------------------------
(* Bounds of the model *)

MaxIds == 3         \* uuids there are
MaxReqs == 2        \* requests accepted in one behaviour
MaxPage == 3        \* largest ?page= value tried
MaxLimit == 2       \* largest ?limit= value tried
MaxListIds == 5     \* largest table the list-only specification starts from

(* Program constants *)

DefaultLimit == 10
DefaultPage == 1
I32Max == 2147483647

Workers == {1, 2}
(* The uuids, ordered as their text is. *)
Ids == 1..MaxIds
Titles == {"", "a"}
Contents == {"", "x"}
Categories == {"", "c"}

None == {}
Some(x) == {x}
Opt(S) == {None} \cup {Some(x) : x \in S}
unwrap(o) == CHOOSE x \in o : TRUE
unwrap_or(o, d) == IF o = None THEN d ELSE unwrap(o)

(* The last path segment of /notes/{id}: the text of a uuid, or not. *)
PathSegs == [text : {"uuid"}, value : Ids] \cup {[text |-> "garbage", value |-> 0]}

MutParseAnything(seg) == Some(seg.value)

(* Path<uuid::Uuid>: the extractor parses the segment before the handler   *)
(* body runs; a segment that is no uuid is rejected with 400.              *)
parse_path(seg) == IF seg.text = "uuid" THEN Some(seg.value) ELSE None

CreateNoteSchema == [title : Titles, content : Contents, category : Opt({"c"})]
UpdateNoteSchema ==
    [title : Opt(Titles), content : Opt(Contents), category : Opt(Categories),
     published : Opt(BOOLEAN)]
NoBody == [title |-> None, content |-> None, category |-> None, published |-> None]

----------------------------------------------------------------------------
(* Storage: the statements the handlers execute.  `up` is whether the      *)
(* statement reaches the database; when it does not, sqlx returns an error *)
(* other than RowNotFound and the table is untouched.                      *)

DuplicateEntry == "Duplicate entry"
RowNotFound == "RowNotFound"
IoError == "Io"
WrongArguments == "Incorrect arguments"
NoError == ""

(* INSERT INTO notes (id,title,content,category) VALUES (?, ?, ?, ?):      *)
MutInsertNoUniqueTitle(tbl, id, title, content, category, up) ==
    IF ~up THEN [err |-> IoError, tbl |-> tbl]
    ELSE IF id \in DOMAIN tbl THEN [err |-> DuplicateEntry, tbl |-> tbl]
    ELSE [err |-> NoError,
          tbl |-> [i \in DOMAIN tbl \cup {id} |->
                     IF i = id
                     THEN [id |-> id, title |-> title, content |-> content,
                           category |-> category, published |-> 0]
                     ELSE tbl[i]]]

(* id is the primary key, title is UNIQUE, published defaults to 0.        *)
insert_note(tbl, id, title, content, category, up) ==
    IF ~up THEN [err |-> IoError, tbl |-> tbl]
    ELSE IF id \in DOMAIN tbl \/ \E i \in DOMAIN tbl : tbl[i].title = title
    THEN [err |-> DuplicateEntry, tbl |-> tbl]
    ELSE [err |-> NoError,
          tbl |-> [i \in DOMAIN tbl \cup {id} |->
                     IF i = id
                     THEN [id |-> id, title |-> title, content |-> content,
                           category |-> category, published |-> 0]
                     ELSE tbl[i]]]

(* SELECT * FROM notes WHERE id = ? with fetch_one *)
fetch_one(tbl, id, up) ==
    IF ~up THEN [err |-> IoError, row |-> None]
    ELSE IF id \in DOMAIN tbl THEN [err |-> NoError, row |-> Some(tbl[id])]
    ELSE [err |-> RowNotFound, row |-> None]

MutUpdateCountsChangedRows(tbl, id, title, content, category, published, up) ==
    IF ~up THEN [err |-> IoError, rows |-> 0, tbl |-> tbl]
    ELSE IF id \notin DOMAIN tbl THEN [err |-> NoError, rows |-> 0, tbl |-> tbl]
    ELSE IF \E i \in DOMAIN tbl : i # id /\ tbl[i].title = title
    THEN [err |-> DuplicateEntry, rows |-> 0, tbl |-> tbl]
    ELSE LET row == [id |-> id, title |-> title, content |-> content,
                     category |-> category, published |-> published]
         IN [err |-> NoError, rows |-> IF tbl[id] = row THEN 0 ELSE 1,
             tbl |-> [tbl EXCEPT ![id] = row]]

MutUpdateUpserts(tbl, id, title, content, category, published, up) ==
    IF ~up THEN [err |-> IoError, rows |-> 0, tbl |-> tbl]
    ELSE IF \E i \in DOMAIN tbl : i # id /\ tbl[i].title = title
    THEN [err |-> DuplicateEntry, rows |-> 0, tbl |-> tbl]
    ELSE [err |-> NoError, rows |-> 1,
          tbl |-> [i \in DOMAIN tbl \cup {id} |->
                     IF i = id
                     THEN [id |-> id, title |-> title, content |-> content,
                           category |-> category, published |-> published]
                     ELSE tbl[i]]]

MutUpdateOmitsCategory(tbl, id, title, content, category, published, up) ==
    IF ~up THEN [err |-> IoError, rows |-> 0, tbl |-> tbl]
    ELSE IF id \notin DOMAIN tbl THEN [err |-> NoError, rows |-> 0, tbl |-> tbl]
    ELSE IF \E i \in DOMAIN tbl : i # id /\ tbl[i].title = title
    THEN [err |-> DuplicateEntry, rows |-> 0, tbl |-> tbl]
    ELSE [err |-> NoError, rows |-> 1,
          tbl |-> [tbl EXCEPT ![id] =
                     [id |-> id, title |-> title, content |-> content,
                      category |-> tbl[id].category, published |-> published]]]

(* UPDATE notes SET title = ?, content = ?, category = ?, published = ?    *)
(* WHERE id = ?.  sqlx connects with CLIENT_FOUND_ROWS, so rows_affected   *)
(* counts the rows the WHERE clause matched, changed or not.               *)
update_note(tbl, id, title, content, category, published, up) ==
    IF ~up THEN [err |-> IoError, rows |-> 0, tbl |-> tbl]
    ELSE IF id \notin DOMAIN tbl THEN [err |-> NoError, rows |-> 0, tbl |-> tbl]
    ELSE IF \E i \in DOMAIN tbl : i # id /\ tbl[i].title = title
    THEN [err |-> DuplicateEntry, rows |-> 0, tbl |-> tbl]
    ELSE [err |-> NoError, rows |-> 1,
          tbl |-> [tbl EXCEPT ![id] =
                     [id |-> id, title |-> title, content |-> content,
                      category |-> category, published |-> published]]]

MutDeleteAllRows(tbl, id, up) ==
    IF ~up THEN [err |-> IoError, rows |-> 0, tbl |-> tbl]
    ELSE IF id \notin DOMAIN tbl THEN [err |-> NoError, rows |-> 0, tbl |-> tbl]
    ELSE [err |-> NoError, rows |-> Cardinality(DOMAIN tbl),
          tbl |-> [i \in {} |-> tbl[i]]]

MutDeleteReportsZero(tbl, id, up) ==
    IF ~up THEN [err |-> IoError, rows |-> 0, tbl |-> tbl]
    ELSE [err |-> NoError, rows |-> 0, tbl |-> [i \in DOMAIN tbl \ {id} |-> tbl[i]]]

(* DELETE FROM notes WHERE id = ? *)
delete_note(tbl, id, up) ==
    IF ~up THEN [err |-> IoError, rows |-> 0, tbl |-> tbl]
    ELSE IF id \notin DOMAIN tbl THEN [err |-> NoError, rows |-> 0, tbl |-> tbl]
    ELSE [err |-> NoError, rows |-> 1, tbl |-> [i \in DOMAIN tbl \ {id} |-> tbl[i]]]

Min(S) == CHOOSE m \in S : \A x \in S : m <= x

RECURSIVE order_by_id(_, _)
order_by_id(tbl, S) ==
    IF S = {} THEN <<>>
    ELSE LET m == Min(S) IN <<tbl[m]>> \o order_by_id(tbl, S \ {m})

(* SELECT * FROM notes ORDER by id LIMIT ? OFFSET ? with fetch_all; a      *)
(* negative LIMIT or OFFSET parameter is refused by the server.            *)
fetch_all(tbl, limit, offset, up) ==
    IF ~up THEN [err |-> IoError, rows |-> <<>>]
    ELSE IF limit < 0 \/ offset < 0 THEN [err |-> WrongArguments, rows |-> <<>>]
    ELSE LET all == order_by_id(tbl, DOMAIN tbl)
             last == IF offset + limit < Len(all) THEN offset + limit ELSE Len(all)
         IN [err |-> NoError, rows |-> SubSeq(all, offset + 1, last)]

----------------------------------------------------------------------------
(* Response shaping *)

MutFilterPublishedInverted(note) ==
    [id |-> note.id, title |-> note.title, content |-> note.content,
     category |-> note.category, published |-> note.published = 0]

filter_db_record(note) ==
    [id |-> note.id, title |-> note.title, content |-> note.content,
     category |-> note.category, published |-> note.published # 0]

(* `x as i32` on the low 32 bits of x.  Wrapping usize arithmetic is       *)
(* congruent to integer arithmetic, so x is given as the integer result.   *)
as_i32(x) == IF x > I32Max THEN x - I32Max - I32Max - 2 ELSE x

Idle == [id |-> 0, body |-> NoBody, input |-> None, note |-> None,
         raced |-> {}, late |-> FALSE, trace |-> <<>>, wrote |-> FALSE]

(* A response: the request it answers (op, path, body/input/page/limit),   *)
(* the HTTP status code, the envelope (status, note, notes, results), and  *)
(* history: cause (what the last statement returned), nstmt (statements    *)
(* executed), before (the row the request first read), raced (another      *)
(* request's UPDATE or DELETE hit the row meanwhile), late (the request    *)
(* began after a Delete of its id had succeeded), pristine (the row is as  *)
(* its Create                                                              *)
(* inserted it and that Create has answered success), trace (the          *)
(* statements the request executed, in order, each with its outcome),      *)
(* wrote (a statement of the request changed the table), binds (the LIMIT  *)
(* and OFFSET parameters a list request bound).                            *)
NoOut ==
    [op |-> "none", path |-> None, body |-> NoBody, input |-> None,
     page |-> None, limit |-> None, code |-> 0, status |-> "", cause |-> "",
     uuid |-> None, note |-> None, notes |-> <<>>, results |-> 0, nstmt |-> 0,
     before |-> None, raced |-> {}, late |-> FALSE, pristine |-> FALSE,
     trace |-> <<>>, wrote |-> FALSE, binds |-> <<>>]

(* A statement in a trace: its kind and what it returned ("ok", the error, *)
(* or "zero" for rows_affected() == 0).                                    *)
Stmt(kind, err) == <<kind, IF err = NoError THEN "ok" ELSE err>>

(* The table the service is started on holds one row written earlier,     *)
(* whose published column (TINYINT) is a nonzero value other than 1.       *)
LegacyRow == [id |-> Min(Ids), title |-> "a", content |-> "x", category |-> "",
              published |-> 2]

Init ==
    /\ notes = [i \in {LegacyRow.id} |-> LegacyRow]
    /\ used = DOMAIN notes
    /\ pc = [w \in Workers |-> "idle"]
    /\ locals = [w \in Workers |-> Idle]
    /\ out = NoOut
    /\ nreq = 0
    /\ inputs = <<>>
    /\ returned = {}
    /\ touched = {}
    /\ deleted = {}
    /\ nresp = 0

(* A request is handed to the first worker that is free. *)
Accept(w) ==
    /\ pc[w] = "idle"
    /\ \A v \in Workers : pc[v] = "idle" => ~(v < w)
    /\ nreq < MaxReqs
    /\ nreq' = nreq + 1

(* The worker answers: its handler returns and its locals are dropped. *)
Respond(w, loc, r) ==
    /\ out' = r
    /\ nresp' = nresp + 1
    /\ pc' = [pc EXCEPT ![w] = "idle"]
    /\ locals' = [loc EXCEPT ![w] = Idle]

(* The handler panics: the task ends and r records why; the handler       *)
(* returns no response.                                                    *)
Panic(w, r) ==
    /\ out' = r
    /\ nresp' = nresp
    /\ pc' = [pc EXCEPT ![w] = "idle"]
    /\ locals' = [locals EXCEPT ![w] = Idle]

(* The worker is suspended at an .await: nothing is answered. *)
Suspend == out' = NoOut /\ nresp' = nresp

(* Worker w's statement (kind: "update" or "delete") has written row id   *)
(* while other requests on that id are suspended.                          *)
Raced(w, id, kind) ==
    [v \in Workers |->
        IF v # w /\ pc[v] # "idle" /\ locals[v].id = id
        THEN [locals[v] EXCEPT !.raced = @ \cup {kind}] ELSE locals[v]]

Unchanged_history == UNCHANGED <<inputs, returned, touched, deleted>>

----------------------------------------------------------------------------
(* GET /health *)
health_checker_handler(w) ==
    /\ Accept(w)
    /\ Respond(w, locals, [NoOut EXCEPT !.op = "health",
                             !.code = 200, !.status = "success"])
    /\ UNCHANGED <<notes, used>>
    /\ Unchanged_history

(* GET|PATCH|DELETE /notes/{id} with a segment Path<uuid::Uuid> refuses:   *)
(* the handler body never runs.                                            *)
path_rejection(w, op, seg) ==
    /\ Accept(w)
    /\ parse_path(seg) = None
    /\ Respond(w, locals, [NoOut EXCEPT !.op = op, !.path = Some(seg),
                             !.code = 400, !.cause = "rejected"])
    /\ UNCHANGED <<notes, used>>
    /\ Unchanged_history

MutOffsetPageTimesLimit(pg, limit) == pg * limit

(* The OFFSET of page pg *)
list_offset(pg, limit) == (pg - 1) * limit

(* GET /notes?page=&limit= .  `checked` is whether the build traps integer *)
(* overflow (debug: page - 1 panics for page 0) or wraps (release).        *)
note_list_handler(w, page, lim, checked, up) ==
    /\ Accept(w)
    /\ LET req == [NoOut EXCEPT !.op = "list", !.page = page,
                                !.limit = lim]
           limit == unwrap_or(lim, DefaultLimit)
           pg == unwrap_or(page, DefaultPage)
       IN IF pg - 1 < 0 /\ checked
          THEN Panic(w, [req EXCEPT !.cause = "panic"])
          ELSE LET offset == list_offset(pg, limit)
                   r == fetch_all(notes, as_i32(limit), as_i32(offset), up)
                   note_responses == [k \in 1..Len(r.rows) |-> filter_db_record(r.rows[k])]
                   sent == [req EXCEPT !.binds = <<as_i32(limit), as_i32(offset)>>,
                                       !.trace = <<Stmt("select_all", r.err)>>]
               IN IF r.err # NoError
                  THEN Respond(w, locals, [sent EXCEPT !.code = 500, !.status = "fail",
                                                       !.cause = r.err, !.nstmt = 1])
                  ELSE Respond(w, locals, [sent EXCEPT !.code = 200, !.status = "success",
                                                      !.cause = r.err, !.nstmt = 1,
                                                      !.results = Len(note_responses),
                                                      !.notes = note_responses])
    /\ UNCHANGED <<notes, used>>
    /\ Unchanged_history

MutNewV4Reuses == Ids \ DOMAIN notes

(* Uuid::new_v4(): a uuid no earlier call returned and no row carries. *)
new_v4 == Ids \ used

MutCreateBindsTitleTwice(body) ==
    [title |-> body.title, content |-> body.title,
     category |-> unwrap_or(body.category, "")]

(* The values create_note_handler binds to its INSERT. *)
create_bindings(body) ==
    [title |-> body.title, content |-> body.content,
     category |-> unwrap_or(body.category, "")]

MutCreateErrorAlways500(err) == 500

(* How create_note_handler answers a failed INSERT. *)
create_error_code(err) == IF err = DuplicateEntry THEN 409 ELSE 500
create_error_status(err) == IF err = DuplicateEntry THEN "fail" ELSE "error"

(* POST /notes: generate the id, INSERT, answer a failure or go on to the  *)
(* re-read.                                                                *)
create_note_handler(w, body, user_id, up) ==
    /\ Accept(w)
    /\ user_id \in new_v4
    /\ used' = used \cup {user_id}
    /\ LET b == create_bindings(body)
           r == insert_note(notes, user_id, b.title, b.content, b.category, up)
           req == [NoOut EXCEPT !.op = "create", !.input = Some(body),
                                !.uuid = Some(user_id),
                                !.trace = <<Stmt("insert", r.err)>>,
                                !.wrote = r.tbl # notes]
       IN /\ notes' = r.tbl
          /\ IF r.err # NoError
             THEN /\ Respond(w, locals, [req EXCEPT !.code = create_error_code(r.err),
                                                    !.status = create_error_status(r.err),
                                                    !.cause = r.err, !.nstmt = 1])
                  /\ UNCHANGED inputs
             ELSE /\ pc' = [pc EXCEPT ![w] = "create_reread"]
                  /\ locals' = [locals EXCEPT ![w] =
                                  [Idle EXCEPT !.id = user_id, !.input = Some(body),
                                               !.trace = <<Stmt("insert", r.err)>>,
                                               !.wrote = r.tbl # notes]]
                  /\ inputs' = [i \in DOMAIN inputs \cup {user_id} |->
                                  IF i = user_id THEN body ELSE inputs[i]]
                  /\ Suspend
    /\ UNCHANGED <<returned, touched, deleted>>

(* How the re-reads of create and edit answer a failed fetch_one. *)
reread_error_code(err) == 500

(* create_note_handler, resumed: SELECT the row by the generated id. *)
create_note_reread(w, up) ==
    /\ pc[w] = "create_reread"
    /\ LET l == locals[w]
           r == fetch_one(notes, l.id, up)
           req == [NoOut EXCEPT !.op = "create", !.input = l.input,
                                !.uuid = Some(l.id), !.raced = l.raced, !.nstmt = 2,
                                !.trace = Append(l.trace, Stmt("select", r.err)),
                                !.wrote = l.wrote]
       IN IF r.err # NoError
          THEN /\ Respond(w, locals, [req EXCEPT !.code = reread_error_code(r.err), !.status = "error",
                                                 !.cause = r.err])
               /\ UNCHANGED returned
          ELSE /\ Respond(w, locals, [req EXCEPT !.code = 200, !.status = "success",
                                                 !.cause = r.err,
                                                 !.note = Some(filter_db_record(unwrap(r.row)))])
               /\ returned' = returned \cup {l.id}
    /\ UNCHANGED <<notes, used, nreq, inputs, touched, deleted>>

(* How a handler answers a failed fetch_one. *)
fetch_error_code(err) == IF err = RowNotFound THEN 404 ELSE 500
fetch_error_status(err) == IF err = RowNotFound THEN "fail" ELSE "error"

(* GET /notes/{id} *)
get_note_handler(w, seg, up) ==
    /\ Accept(w)
    /\ parse_path(seg) # None
    /\ LET id == unwrap(parse_path(seg))
           r == fetch_one(notes, id, up)
           req == [NoOut EXCEPT !.op = "get", !.path = Some(seg),
                                !.uuid = Some(id), !.nstmt = 1, !.late = id \in deleted,
                                !.pristine = id \in returned \ touched,
                                !.trace = <<Stmt("select", r.err)>>]
       IN IF r.err # NoError
          THEN Respond(w, locals, [req EXCEPT !.code = fetch_error_code(r.err),
                                              !.status = fetch_error_status(r.err),
                                              !.cause = r.err])
          ELSE Respond(w, locals, [req EXCEPT !.code = 200, !.status = "success",
                                              !.cause = r.err,
                                              !.note = Some(filter_db_record(unwrap(r.row)))])
    /\ UNCHANGED <<notes, used>>
    /\ Unchanged_history

(* `published as i8` *)
bool_as_i8(b) == IF b THEN 1 ELSE 0

MutEditKeepsFlagOne(body, note) ==
    [title |-> unwrap_or(body.title, note.title),
     content |-> unwrap_or(body.content, note.content),
     category |-> unwrap_or(body.category, note.category),
     published |-> bool_as_i8(unwrap_or(body.published, note.published = 1))]

(* The values edit_note_handler binds to its UPDATE: a field of the body,  *)
(* or else the field of the row read first.                                *)
edit_bindings(body, note) ==
    [title |-> unwrap_or(body.title, note.title),
     content |-> unwrap_or(body.content, note.content),
     category |-> unwrap_or(body.category, note.category),
     published |-> bool_as_i8(unwrap_or(body.published, note.published # 0))]

(* How edit_note_handler answers a failed UPDATE. *)
update_error_code(err) == 500
update_error_status(err) == "error"

(* PATCH /notes/{id}: SELECT the row; answer a failure or go on. *)
edit_note_handler(w, seg, body, up) ==
    /\ Accept(w)
    /\ parse_path(seg) # None
    /\ LET id == unwrap(parse_path(seg))
           r == fetch_one(notes, id, up)
           req == [NoOut EXCEPT !.op = "update", !.path = Some(seg),
                                !.body = body, !.uuid = Some(id), !.nstmt = 1,
                                !.late = id \in deleted,
                                !.trace = <<Stmt("select", r.err)>>]
       IN IF r.err # NoError
          THEN Respond(w, locals, [req EXCEPT !.code = fetch_error_code(r.err),
                                              !.status = fetch_error_status(r.err),
                                              !.cause = r.err])
          ELSE /\ pc' = [pc EXCEPT ![w] = "edit_update"]
               /\ locals' = [locals EXCEPT ![w] =
                               [Idle EXCEPT !.id = id, !.body = body, !.note = r.row,
                                            !.late = id \in deleted,
                                            !.trace = <<Stmt("select", r.err)>>]]
               /\ Suspend
    /\ UNCHANGED <<notes, used>>
    /\ Unchanged_history

EditReq(w, seg) ==
    LET l == locals[w]
    IN [NoOut EXCEPT !.op = "update", !.path = Some(seg), !.body = l.body,
                     !.uuid = Some(l.id), !.before = l.note, !.late = l.late]

uuid_seg(id) == [text |-> "uuid", value |-> id]

(* update_result.rows_affected() == 0 (and query_result's, in delete) *)
no_rows_affected(r) == r.rows = 0

(* What an UPDATE or DELETE returned, for the trace. *)
StmtRows(kind, r) ==
    <<kind, IF r.err # NoError THEN r.err ELSE IF r.rows = 0 THEN "zero" ELSE "ok">>

(* edit_note_handler, resumed: the UPDATE and its rows_affected. *)
edit_note_update(w, up) ==
    /\ pc[w] = "edit_update"
    /\ LET l == locals[w]
           b == edit_bindings(l.body, unwrap(l.note))
           r == update_note(notes, l.id, b.title, b.content, b.category, b.published, up)
           req == [EditReq(w, uuid_seg(l.id)) EXCEPT
                      !.nstmt = 2, !.raced = l.raced,
                      !.trace = Append(l.trace, StmtRows("update", r)),
                      !.wrote = r.tbl # notes]
       IN /\ notes' = r.tbl
          /\ IF r.err # NoError
             THEN /\ Respond(w, locals, [req EXCEPT !.code = update_error_code(r.err),
                                                    !.status = update_error_status(r.err),
                                                    !.cause = r.err])
                  /\ UNCHANGED touched
             ELSE IF no_rows_affected(r)
             THEN /\ Respond(w, locals, [req EXCEPT !.code = 404, !.status = "fail",
                                                    !.cause = "rows_affected 0"])
                  /\ UNCHANGED touched
             ELSE /\ pc' = [pc EXCEPT ![w] = "edit_reread"]
                  /\ locals' = [Raced(w, l.id, "update") EXCEPT
                                  ![w].trace = Append(l.trace, StmtRows("update", r)),
                                  ![w].wrote = r.tbl # notes]
                  /\ touched' = touched \cup {l.id}
                  /\ Suspend
    /\ UNCHANGED <<used, nreq, inputs, returned, deleted>>

(* edit_note_handler, resumed: SELECT the row again. *)
edit_note_reread(w, up) ==
    /\ pc[w] = "edit_reread"
    /\ LET l == locals[w]
           r == fetch_one(notes, l.id, up)
           req == [EditReq(w, uuid_seg(l.id)) EXCEPT
                      !.nstmt = 3, !.raced = l.raced,
                      !.trace = Append(l.trace, Stmt("select", r.err)),
                      !.wrote = l.wrote]
       IN IF r.err # NoError
          THEN Respond(w, locals, [req EXCEPT !.code = reread_error_code(r.err),
                                              !.status = "error", !.cause = r.err])
          ELSE Respond(w, locals, [req EXCEPT !.code = 200, !.status = "success",
                                              !.cause = r.err,
                                              !.note = Some(filter_db_record(unwrap(r.row)))])
    /\ UNCHANGED <<notes, used, nreq>>
    /\ Unchanged_history

(* DELETE /notes/{id} *)
delete_note_handler(w, seg, up) ==
    /\ Accept(w)
    /\ parse_path(seg) # None
    /\ LET id == unwrap(parse_path(seg))
           r == delete_note(notes, id, up)
           req == [NoOut EXCEPT !.op = "delete", !.path = Some(seg),
                                !.uuid = Some(id), !.nstmt = 1, !.late = id \in deleted,
                                !.trace = <<StmtRows("delete", r)>>,
                                !.wrote = r.tbl # notes]
       IN /\ notes' = r.tbl
          /\ IF r.err # NoError
             THEN /\ Respond(w, locals, [req EXCEPT !.code = 500, !.status = "error",
                                                    !.cause = r.err])
                  /\ UNCHANGED <<touched, deleted>>
             ELSE IF no_rows_affected(r)
             THEN /\ Respond(w, locals, [req EXCEPT !.code = 404, !.status = "fail",
                                                    !.cause = "rows_affected 0"])
                  /\ UNCHANGED <<touched, deleted>>
             ELSE /\ Respond(w, Raced(w, id, "delete"), [req EXCEPT !.code = 204, !.cause = r.err])
                  /\ touched' = touched \cup {id}
                  /\ deleted' = deleted \cup {id}
    /\ UNCHANGED <<used, inputs, returned>>

----------------------------------------------------------------------------
Pages == Opt(0..MaxPage)
Limits == Opt(0..MaxLimit)
Supplied(body) == {f \in DOMAIN body : body[f] # None}
(* PATCH bodies tried: those supplying at most one field, and one that    *)
(* supplies all four.                                                      *)
PatchBodies ==
    {b \in UpdateNoteSchema : Cardinality(Supplied(b)) <= 1} \cup
    {[title |-> Some(""), content |-> Some(""), category |-> Some("c"),
      published |-> Some(FALSE)]}

(* The requests on single notes, interleaved at their statements; every   *)
(* statement reaches the database when U = {TRUE}.                         *)
Requests(U) ==
    \/ \E w \in Workers, op \in {"get", "update", "delete"}, seg \in PathSegs :
          path_rejection(w, op, seg)
    \/ \E w \in Workers, body \in CreateNoteSchema, user_id \in Ids, up \in U :
          create_note_handler(w, body, user_id, up)
    \/ \E w \in Workers, up \in U : create_note_reread(w, up)
    \/ \E w \in Workers, seg \in PathSegs, up \in U : get_note_handler(w, seg, up)
    \/ \E w \in Workers, seg \in PathSegs, body \in PatchBodies, up \in U :
          edit_note_handler(w, seg, body, up)
    \/ \E w \in Workers, up \in U : edit_note_update(w, up)
    \/ \E w \in Workers, up \in U : edit_note_reread(w, up)
    \/ \E w \in Workers, seg \in PathSegs, up \in U : delete_note_handler(w, seg, up)

Next == Requests({TRUE})

Spec == Init /\ [][Next]_vars

----------------------------------------------------------------------------
(* Pagination on its own: the table may hold any set of the first          *)
(* MaxListIds ids, and only GET /notes and GET /health are served (neither *)
(* writes the table).  A statement may fail to reach the database.         *)

list_row(i) == [id |-> i, title |-> ToString(i), content |-> "x", category |-> "",
                published |-> i % 3]

InitList ==
    /\ \E S \in SUBSET (1..MaxListIds) : notes = [i \in S |-> list_row(i)]
    /\ used = DOMAIN notes
    /\ pc = [w \in Workers |-> "idle"]
    /\ locals = [w \in Workers |-> Idle]
    /\ out = NoOut
    /\ nreq = 0
    /\ inputs = <<>>
    /\ returned = {}
    /\ touched = {}
    /\ deleted = {}
    /\ nresp = 0

NextList ==
    \/ \E w \in Workers : health_checker_handler(w)
    \/ \E w \in Workers, page \in Pages, lim \in Limits, checked \in BOOLEAN, up \in BOOLEAN :
          note_list_handler(w, page, lim, checked, up)

SpecList == InitList /\ [][NextList]_vars

----------------------------------------------------------------------------
(* Properties *)

Garbage(path) == path # None /\ unwrap(path).text # "uuid"
TextOf(n) == [title |-> n.title, content |-> n.content, category |-> n.category]
AsInserted(body) ==
    [title |-> body.title, content |-> body.content,
     category |-> IF body.category = None THEN "" ELSE unwrap(body.category)]

(* C1: a Get of an id whose Create has answered success, with no UPDATE or *)
(* DELETE statement on that id since its insert, answers success with the *)
(* title and content of the Create's input, its category ("" when it was   *)
(* omitted) and published = false.                                         *)
C1_CreateThenGet ==
    (out.op = "get" /\ out.pristine) =>
        /\ out.code = 200
        /\ out.status = "success"
        /\ out.note # None
        /\ unwrap(out.note).id = unwrap(out.uuid)
        /\ TextOf(unwrap(out.note)) = AsInserted(inputs[unwrap(out.uuid)])
        /\ unwrap(out.note).published = FALSE

C1_Witness ==
    /\ out.op = "get"
    /\ out.pristine
    /\ out.code = 200
    /\ inputs[unwrap(out.uuid)].category = None
    /\ unwrap(out.note).category = ""

(* C2: every step of create_note_handler whose title is the title of a     *)
(* stored note answers 409 with status "fail" and leaves the table as it   *)
(* was: no row added, the stored rows unchanged.                           *)
C2_DuplicateTitle ==
    [][\A w \in Workers, body \in CreateNoteSchema, user_id \in Ids :
          (/\ create_note_handler(w, body, user_id, TRUE)
           /\ \E i \in DOMAIN notes : notes[i].title = body.title)
          => /\ out'.op = "create"
             /\ out'.code = 409
             /\ out'.status = "fail"
             /\ notes' = notes]_vars

C2_Witness ==
    /\ out.op = "create"
    /\ out.code = 409
    /\ \E i \in DOMAIN notes : notes[i].title = unwrap(out.input).title /\ i \in returned

(* C3: a successful Update that no other request's UPDATE or DELETE on the *)
(* same id ran beside answers a note with the id of the request, every     *)
(* supplied field at its supplied value, and every absent field at the     *)
(* public value of the row read first (published as a boolean).            *)
C3_PartialUpdateMerge ==
    (out.op = "update" /\ out.code = 200 /\ out.raced = {}) =>
        LET old == unwrap(out.before)
            new == unwrap(out.note)
            b == out.body
        IN /\ new.id = unwrap(out.uuid)
           /\ new.id = old.id
           /\ new.title = IF b.title = None THEN old.title ELSE unwrap(b.title)
           /\ new.content = IF b.content = None THEN old.content ELSE unwrap(b.content)
           /\ new.category = IF b.category = None THEN old.category ELSE unwrap(b.category)
           /\ new.published = IF b.published = None THEN old.published # 0
                              ELSE unwrap(b.published)
           /\ notes[new.id].id = old.id

C3_Witness ==
    /\ out.op = "update"
    /\ out.code = 200
    /\ out.raced = {}
    /\ Supplied(out.body) = {"category"}
    /\ unwrap(out.before).published = 2
    /\ unwrap(out.note).published = TRUE
    /\ unwrap(out.note).category # unwrap(out.before).category

(* C4 as claimed: an Update with an empty body on a note its first read    *)
(* found, with no Delete of that id beside it, answers success with title, *)
(* content, category and published as they were read.                      *)
C4_NoOpUpdate_AsClaimed ==
    (out.op = "update" /\ out.body = NoBody /\ out.before # None
        /\ "delete" \notin out.raced) =>
        /\ out.code = 200
        /\ out.note = Some(filter_db_record(unwrap(out.before)))

(* C4, amended: the same with no Update and no Delete of that id beside    *)
(* it; in particular the answer is not 404 because the values written      *)
(* equal the values stored.                                                *)
C4_NoOpUpdate ==
    (out.op = "update" /\ out.body = NoBody /\ out.before # None /\ out.raced = {}) =>
        /\ out.code = 200
        /\ out.status = "success"
        /\ out.note = Some(filter_db_record(unwrap(out.before)))

C4_Witness ==
    /\ out.op = "update"
    /\ out.body = NoBody
    /\ out.raced = {}
    /\ out.code = 200
    /\ out.nstmt = 3
    /\ unwrap(out.before).published = 0
    /\ notes[unwrap(out.uuid)] = unwrap(out.before)

(* C5: a Get, Update or Delete that begins after a Delete of its id has    *)
(* answered 204 answers 404; and no row carries an id whose Delete has     *)
(* answered 204, whatever is created afterwards.                           *)
C5_DeleteIsFinal ==
    /\ (out.op \in {"get", "update", "delete"} /\ out.late) => out.code = 404
    /\ deleted \cap DOMAIN notes = {}

C5_Witness ==
    /\ out.op \in {"get", "update"}
    /\ out.late
    /\ out.code = 404
    /\ unwrap(out.uuid) \in deleted

C7_ValidationFirst ==
    [][(nreq' = nreq + 1 /\ Garbage(out'.path)) =>
          /\ out'.op \in {"get", "update", "delete"}
          /\ out'.code = 400
          /\ out'.nstmt = 0
          /\ notes' = notes]_vars

C7_Witness ==
    /\ Garbage(out.path)
    /\ out.op = "delete"
    /\ out.code = 400
    /\ DOMAIN notes # {}

(* C8 as claimed: whenever a statement fails on the uniqueness of title    *)
(* (or of id), the request answers 409.                                    *)
C8_ConflictNeverInternal == out.cause = DuplicateEntry => out.code = 409

(* C9 as claimed: whenever a statement of a request finds no row for its   *)
(* id, the request answers 404.                                            *)
C9_NotFoundNeverInternal ==
    out.cause \in {RowNotFound, "rows_affected 0"} => out.code = 404

(* C10 as claimed: every Create that answers success answers a note with   *)
(* published = false and the title, content and category of its input.     *)
C10_CreateRoundTrip_AsClaimed ==
    (out.op = "create" /\ out.code = 200) =>
        /\ TextOf(unwrap(out.note)) = AsInserted(unwrap(out.input))
        /\ unwrap(out.note).published = FALSE

(* C10, amended: the same for every Create that no Update of the created   *)
(* id wrote between its insert and its re-read; and the note answered      *)
(* carries the generated id.                                               *)
C10_CreateRoundTrip ==
    (out.op = "create" /\ out.code = 200 /\ "update" \notin out.raced) =>
        /\ unwrap(out.note).id = unwrap(out.uuid)
        /\ TextOf(unwrap(out.note)) = AsInserted(unwrap(out.input))
        /\ unwrap(out.note).published = FALSE

C10_Witness ==
    /\ out.op = "create"
    /\ out.code = 200
    /\ out.raced = {}
    /\ unwrap(out.input).category = None
    /\ unwrap(out.note).category = ""
    /\ unwrap(out.note).published = FALSE

----------------------------------------------------------------------------
(* C11: in every reachable state no two stored notes have the same title:  *)
(* the UNIQUE index on title refuses the INSERT or UPDATE that would make  *)
(* a second one.                                                           *)
C11_TitleUnique ==
    \A i \in DOMAIN notes, j \in DOMAIN notes :
        notes[i].title = notes[j].title => i = j

(* Two notes are stored and a statement was just refused as a duplicate. *)
C11_Witness ==
    /\ Cardinality(DOMAIN notes) >= 2
    /\ out.cause = DuplicateEntry

----------------------------------------------------------------------------
(* C12: a Create whose title or content is the empty string is rejected    *)
(* as Validation (400) before any insert, and every stored note has a      *)
(* non-empty title.                                                        *)
C12_NonEmptyTitleAndContent ==
    /\ \A i \in DOMAIN notes : notes[i].title # ""
    /\ (/\ out.op = "create"
        /\ (unwrap(out.input).title = "" \/ unwrap(out.input).content = ""))
       => (out.code = 400 /\ out.trace = <<>>)

----------------------------------------------------------------------------
(* C13: every NotFound (404) or Conflict (409) response has status "fail",  *)
(* every Internal (500) response has status "error", and every successful  *)
(* response with a body has status "success", whichever handler answers.   *)
C13_EnvelopeStatus ==
    /\ out.code \in {404, 409} => out.status = "fail"
    /\ out.code = 500 => out.status = "error"
    /\ out.code \in {200, 201} => out.status = "success"

----------------------------------------------------------------------------
(* C14: the id of a note is generated by Create before the insert; every   *)
(* stored row carries the id it is stored under, so no two stored notes    *)
(* share an id; no step changes the id of a stored note; the set of stored *)
(* ids changes only by the insert of a Create (adding the id it generated) *)
(* or by a successful Delete (removing the id it names).                   *)
C14_IdStable ==
    [][/\ \A i \in DOMAIN notes' : notes'[i].id = i
       /\ \A i \in DOMAIN notes \cap DOMAIN notes' : notes'[i].id = notes[i].id
       /\ DOMAIN notes' # DOMAIN notes =>
            \/ \E id \in used' \ used :
                  /\ id \notin DOMAIN notes
                  /\ DOMAIN notes' = DOMAIN notes \cup {id}
            \/ /\ out'.op = "delete" /\ out'.code = 204
               /\ unwrap(out'.uuid) \in DOMAIN notes
               /\ DOMAIN notes' = DOMAIN notes \ {unwrap(out'.uuid)}]_vars

(* An Update has answered success for a note while another note is stored: *)
(* both keep their ids.                                                    *)
C14_Witness ==
    /\ out.op = "update" /\ out.code = 200
    /\ unwrap(out.note).id = unwrap(out.uuid)
    /\ out.wrote
    /\ Cardinality(DOMAIN notes) = 2

----------------------------------------------------------------------------
(* C15: when a concurrent Delete has removed the note after an Update's    *)
(* initial read and before its write, the write (when it reaches the       *)
(* database) affects zero rows and changes nothing, the Update answers     *)
(* NotFound (404), and no note with that id exists afterwards.             *)
C15_UpdateRacingDelete ==
    [][\A w \in Workers :
          (/\ pc[w] = "edit_update" /\ pc'[w] # "edit_update"
           /\ "delete" \in locals[w].raced
           /\ out'.cause # IoError)
          => /\ out'.op = "update" /\ out'.code = 404
             /\ out'.trace[2] = <<"update", "zero">>
             /\ unwrap(out'.uuid) = locals[w].id
             /\ pc'[w] = "idle"
             /\ notes' = notes
             /\ locals[w].id \notin DOMAIN notes']_vars

(* The Update answered 404 at its write, a Delete having run since its read. *)
C15_Witness ==
    /\ out.op = "update" /\ out.code = 404
    /\ out.before # None
    /\ "delete" \in out.raced
    /\ unwrap(out.uuid) \in deleted
    /\ unwrap(out.uuid) \notin DOMAIN notes

----------------------------------------------------------------------------
(* C16: each UPDATE statement that succeeds leaves the row holding exactly *)
(* the values it bound: a supplied field's value, and for a field the body *)
(* does not supply the value the Update's own initial read returned.  So   *)
(* the stored values are those of the update statement that executed last, *)
(* and of two concurrent Updates of one id that each supply a different    *)
(* single field, one field can end with its pre-update value although both *)
(* answer success.                                                         *)
C16_LastWriteWins ==
    [][\A w \in Workers :
          (pc[w] = "edit_update" /\ pc'[w] = "edit_reread")
          => LET l == locals[w]
                 read == unwrap(l.note)
                 bound(f) == IF l.body[f] = None THEN read[f] ELSE unwrap(l.body[f])
                 flag == IF l.body.published = None THEN read.published # 0
                         ELSE unwrap(l.body.published)
             IN /\ l.id \in DOMAIN notes'
                /\ notes'[l.id].title = bound("title")
                /\ notes'[l.id].content = bound("content")
                /\ notes'[l.id].category = bound("category")
                /\ notes'[l.id].published = (IF flag THEN 1 ELSE 0)]_vars

(* The lost update: an Update that supplied only field f has answered      *)
(* success, yet its response and the stored row carry the pre-update value *)
(* of f, because another Update of the same id, supplying only a different *)
(* field, wrote after it with the values it had read before; that Update   *)
(* has written and is about to re-read.                                    *)
C16_Witness ==
    \E w \in Workers, f \in {"title", "content", "category"} :
        /\ pc[w] = "edit_reread"
        /\ out.op = "update" /\ out.code = 200
        /\ unwrap(out.uuid) = locals[w].id
        /\ Supplied(out.body) = {f}
        /\ Cardinality(Supplied(locals[w].body)) = 1
        /\ Supplied(locals[w].body) # {f}
        /\ unwrap(out.body[f]) # unwrap(out.before)[f]
        /\ unwrap(out.note)[f] = unwrap(out.before)[f]
        /\ notes[locals[w].id][f] = unwrap(out.before)[f]

----------------------------------------------------------------------------
(* C17, as claimed: every request answered with a failure envelope         *)
(* (Validation 400, NotFound 404, Conflict 409, Internal 500) has made no  *)
(* change to the stored notes.                                             *)
C17_NoPartialEffect_AsClaimed ==
    out.code \in {400, 404, 409, 500} => ~out.wrote

(* C17, amended: every request answered Validation, NotFound or Conflict   *)
(* has made no change to the stored notes; a Create answered Internal      *)
(* because its re-read failed has already inserted its note, and an Update *)
(* answered Internal because its re-read failed has already executed its   *)
(* UPDATE, which changed the row whenever it bound a value other than the  *)
(* stored one.                                                             *)
C17_NoPartialEffect ==
    /\ out.code \in {400, 404, 409} => ~out.wrote
    /\ (out.op = "create" /\ out.code = 500 /\ Len(out.trace) = 2) => out.wrote
    /\ (out.op = "update" /\ out.code = 500 /\ Len(out.trace) = 3) =>
          /\ out.trace[2] = <<"update", "ok">>
          /\ (/\ "update" \notin out.raced
              /\ \E f \in {"title", "content", "category"} :
                    /\ out.body[f] # None
                    /\ unwrap(out.body[f]) # unwrap(out.before)[f])
             => out.wrote

(* A Create answered Internal at its re-read after its INSERT was applied. *)
C17_Witness ==
    /\ out.op = "create" /\ out.code = 500
    /\ out.wrote
    /\ out.trace = <<<<"insert", "ok">>, <<"select", RowNotFound>>>>

----------------------------------------------------------------------------
(* C18: for every page and limit the list handler accepts (defaults page 1 *)
(* and limit 10), the bound limit is at least 1, the bound offset is at    *)
(* least 0 and equals (page - 1) * limit, the computation never underflows *)
(* (page = 0 included), and narrowing to 32 bits changes neither value.    *)
C18_ListOffsetArithmetic ==
    out.op = "list" =>
        LET pg == unwrap_or(out.page, DefaultPage)
            limit == unwrap_or(out.limit, DefaultLimit)
        IN /\ out.cause # "panic"
           /\ out.binds # <<>>
           /\ out.binds[1] = limit /\ out.binds[1] >= 1
           /\ out.binds[2] = (pg - 1) * limit /\ out.binds[2] >= 0

----------------------------------------------------------------------------
(* C19: each request executes its statements in the fixed order of its     *)
(* handler (Create: insert, re-read; Update: read, one update, re-read;    *)
(* Get, Delete: one statement), never twice, and produces one response:    *)
(* every accepted request is in flight or has been answered once; a        *)
(* request in flight has executed a prefix of its statements, all of them  *)
(* successful; an answered request executed a prefix of which only the     *)
(* last statement may have failed, it is answered with success exactly     *)
(* when it executed them all successfully, and with NotFound, Conflict or  *)
(* Internal only by the statement that failed, after which it has issued   *)
(* no other.                                                               *)
Statements(op) ==
    CASE op = "create" -> <<"insert", "select">>
      [] op = "update" -> <<"select", "update", "select">>
      [] op = "get" -> <<"select">>
      [] op = "delete" -> <<"delete">>
      [] op = "list" -> <<"select_all">>
      [] OTHER -> <<>>

C19_StatementOrder ==
    /\ nresp + Cardinality({w \in Workers : pc[w] # "idle"}) = nreq
    /\ \A w \in Workers :
          /\ pc[w] = "create_reread" => locals[w].trace = <<<<"insert", "ok">>>>
          /\ pc[w] = "edit_update" => locals[w].trace = <<<<"select", "ok">>>>
          /\ pc[w] = "edit_reread" =>
                locals[w].trace = <<<<"select", "ok">>, <<"update", "ok">>>>
    /\ out.op \notin {"none", "health"} =>
          LET t == out.trace
              n == Len(t)
              full == Statements(out.op)
          IN /\ n <= Len(full)
             /\ \A k \in 1..n : t[k][1] = full[k]
             /\ \A k \in 1..(n - 1) : t[k][2] = "ok"
             /\ out.code \in {200, 201, 204} <=> (n = Len(full) /\ t[n][2] = "ok")
             /\ out.code \in {404, 409, 500} => (n >= 1 /\ t[n][2] # "ok")
             /\ out.code = 400 => n = 0

====
